---- MODULE Spec2Model ----
(***************************************************************************)
(* gomdoc: metadata extraction (renderer.ParseFrontmatter), link rewriting *)
(* (renderer.RewriteLinks), corpus scanning (scanner.ScanDirectory), the   *)
(* index tree (scanner.BuildTree, scanner.RenderTree) and document         *)
(* requests (server.handleMarkdown).                                       *)
(*                                                                         *)
(* A Go string or []byte is a sequence of one-character strings, so that   *)
(* prefix tests, indexing, splitting and trimming are computed as the code *)
(* computes them.                                                          *)
(***************************************************************************)
EXTENDS Integers, Sequences, FiniteSets, TLC

VARIABLES
    content,     \* ParseFrontmatter: the document bytes handed to it
    nLines,      \* number of lines written into content so far
    eol,         \* the line terminator the document's author uses
    fm,          \* ParseFrontmatter: the returned Frontmatter
    remaining,   \* ParseFrontmatter: the returned remaining content
    fmPc,        \* "idle" | "edit" | "parsed"
    linkChunks,  \* RewriteLinks: the pieces the hypertext fragment is made of
    currentDir,  \* RewriteLinks: the directory of the document being rendered
    rewritten,   \* RewriteLinks: the returned fragment
    linkPc,      \* "idle" | "render" | "done"
    rootName,    \* ScanDirectory: the base name of the root directory
    tree,        \* the file system below the root: a set of [path, kind]
    entries,     \* ScanDirectory: the returned []FileEntry
    scanErr,     \* ScanDirectory: whether an error was returned
    scanPc,      \* "idle" | "files" | "done"
    treeEntries, \* BuildTree: the []FileEntry handed to it
    built,       \* BuildTree: the returned root *TreeNode
    rendered,    \* RenderTree: the returned HTML
    treePc,      \* "idle" | "entries" | "done"
    disk,        \* the markdown files below baseDir, as relative paths
    listed,      \* the files the last index page listed
    reqPath,     \* handleMarkdown: r.URL.Path
    readLower,   \* handleMarkdown: outcome of reading <path>.md
    readUpper,   \* handleMarkdown: outcome of reading <path>.MD
    filePath,    \* handleMarkdown: the file whose content was read
    convertErr,  \* handleMarkdown: whether RenderWithLinks returned an error
    response,    \* handleMarkdown: the response written
    listedGone,  \* a listed file with the requested route was gone at the request
    nRequests,   \* number of document requests so far
    servePc      \* "off" | "idle" | "readLower" | "readUpper" | "render" | "done"

fmVars == <<content, nLines, eol, fm, remaining, fmPc>>
linkVars == <<linkChunks, currentDir, rewritten, linkPc>>
scanVars == <<rootName, tree, entries, scanErr, scanPc>>
treeVars == <<treeEntries, built, rendered, treePc>>
serveVars == <<disk, listed, reqPath, readLower, readUpper, filePath, convertErr,
               response, listedGone, nRequests, servePc>>
vars == <<fmVars, linkVars, scanVars, treeVars, serveVars>>

(***************************************************************************)
(* Bounds of the model.                                                    *)
(***************************************************************************)
MaxDocLines == 4
MaxChunks == 3
MaxNodes == 3
MaxDepth == 3
MaxEntries == 3
MaxRequests == 2

(***************************************************************************)
(* Go's strings package, on sequences of characters.                       *)
(***************************************************************************)
Min(S) == CHOOSE x \in S : \A y \in S : x <= y

\* s[n:]
Drop(s, n) == SubSeq(s, n + 1, Len(s))

\* s[a:b]
Slice(s, a, b) == SubSeq(s, a + 1, b)

\* strings.HasPrefix
HasPrefix(s, p) == Len(s) >= Len(p) /\ SubSeq(s, 1, Len(p)) = p

\* strings.HasSuffix
HasSuffix(s, p) == Len(s) >= Len(p) /\ SubSeq(s, Len(s) - Len(p) + 1, Len(s)) = p

\* strings.TrimSuffix
TrimSuffix(s, p) == IF HasSuffix(s, p) THEN SubSeq(s, 1, Len(s) - Len(p)) ELSE s

\* strings.TrimPrefix
TrimPrefix(s, p) == IF HasPrefix(s, p) THEN Drop(s, Len(p)) ELSE s

\* strings.Index: the 0-based index of the first occurrence of sub in s, or -1
Index(s, sub) ==
    LET hits == {i \in 0..(Len(s) - Len(sub)) : SubSeq(s, i + 1, i + Len(sub)) = sub}
    IN  IF hits = {} THEN -1 ELSE Min(hits)

\* strings.Split(s, sep), sep non-empty
RECURSIVE Split(_, _)
Split(s, sep) ==
    LET i == Index(s, sep)
    IN  IF i = -1 THEN <<s>>
        ELSE <<Slice(s, 0, i)>> \o Split(Drop(s, i + Len(sep)), sep)

\* strings.SplitN(s, sep, 2)
SplitN2(s, sep) ==
    LET i == Index(s, sep)
    IN  IF i = -1 THEN <<s>> ELSE <<Slice(s, 0, i), Drop(s, i + Len(sep))>>

\* strings.Trim(s, cutset): all leading and trailing characters of cutset removed
RECURSIVE TrimLeft(_, _)
TrimLeft(s, cutset) ==
    IF s # <<>> /\ Head(s) \in cutset THEN TrimLeft(Tail(s), cutset) ELSE s

RECURSIVE TrimRight(_, _)
TrimRight(s, cutset) ==
    IF s # <<>> /\ s[Len(s)] \in cutset
    THEN TrimRight(SubSeq(s, 1, Len(s) - 1), cutset) ELSE s

Trim(s, cutset) == TrimRight(TrimLeft(s, cutset), cutset)

\* the white space unicode.IsSpace accepts, among the characters of the model
WhiteSpace == {" ", "\t", "\n", "\r"}

\* strings.TrimSpace
TrimSpace(s) == Trim(s, WhiteSpace)

\* strings.ToLower, on the letters of the model
UpperLetters == <<"A","B","C","D","E","F","G","H","I","J","K","L","M",
                  "N","O","P","Q","R","S","T","U","V","W","X","Y","Z">>
LowerLetters == <<"a","b","c","d","e","f","g","h","i","j","k","l","m",
                  "n","o","p","q","r","s","t","u","v","w","x","y","z">>

LowerChar(c) ==
    IF \E i \in 1..Len(UpperLetters) : UpperLetters[i] = c
    THEN LowerLetters[CHOOSE i \in 1..Len(UpperLetters) : UpperLetters[i] = c]
    ELSE c

ToLower(s) == [i \in 1..Len(s) |-> LowerChar(s[i])]

(***************************************************************************)
(* renderer.ParseFrontmatter                                               *)
(***************************************************************************)
\* Frontmatter{}
EmptyFrontmatter == [Title |-> <<>>, Author |-> <<>>]

\* HasOpeningDelimiter without the test for the terminator of the opening line
HasOpeningDelimiterNoTerminator(text) == HasPrefix(text, <<"-", "-", "-">>)

\* the check for the frontmatter delimiter at the start
HasOpeningDelimiter(text) ==
    HasPrefix(text, <<"-", "-", "-", "\n">>) \/ HasPrefix(text, <<"-", "-", "-", "\r", "\n">>)

\* the length of the opening delimiter line
OpeningLen(text) == IF HasPrefix(text, <<"-", "-", "-", "\r", "\n">>) THEN 5 ELSE 4

\* endIndex: the index in text of the "\n---" that closes the block, or -1
ClosingIndex(text) ==
    LET i == Index(Drop(text, OpeningLen(text)), <<"\n", "-", "-", "-">>)
    IN  IF i # -1 THEN i + OpeningLen(text) ELSE -1

\* fmBlock
FrontmatterBlock(text, endIndex) == Slice(text, OpeningLen(text), endIndex)

\* one iteration of the loop over the lines of the block
ParseLine(acc, rawLine) ==
    LET line  == TrimSpace(rawLine)
        parts == SplitN2(line, <<":">>)
    IN  IF line = <<>> THEN acc
        ELSE IF Len(parts) # 2 THEN acc
        ELSE LET key   == TrimSpace(parts[1])
                 value == Trim(TrimSpace(parts[2]), {"\"", "'"})
             IN  IF ToLower(key) = <<"t", "i", "t", "l", "e">> THEN [acc EXCEPT !.Title = value]
                 ELSE IF ToLower(key) = <<"a", "u", "t", "h", "o", "r">> THEN [acc EXCEPT !.Author = value]
                 ELSE acc

\* the loop over the lines of the block
RECURSIVE ParseLines(_, _)
ParseLines(acc, lines) ==
    IF lines = <<>> THEN acc
    ELSE ParseLines(ParseLine(acc, Head(lines)), Tail(lines))

\* remaining: what follows the closing "\n---" and one line terminator
RemainingAfter(text, endIndex) ==
    LET rest == Drop(text, endIndex + 4)
    IN  IF HasPrefix(rest, <<"\r", "\n">>) THEN Drop(rest, 2)
        ELSE IF HasPrefix(rest, <<"\n">>) THEN Drop(rest, 1)
        ELSE rest

ParseFrontmatter(text) ==
    IF ~HasOpeningDelimiter(text)
    THEN [fm |-> EmptyFrontmatter, content |-> text]
    ELSE LET endIndex == ClosingIndex(text)
         IN  IF endIndex = -1
             THEN [fm |-> EmptyFrontmatter, content |-> text]
             ELSE [fm |-> ParseLines(EmptyFrontmatter,
                                     Split(FrontmatterBlock(text, endIndex), <<"\n">>)),
                   content |-> RemainingAfter(text, endIndex)]

(***************************************************************************)
(* Documents: a document is written line by line, every line ended by the  *)
(* author's terminator; the last terminator may be missing.                *)
(***************************************************************************)
LF == <<"\n">>
CRLF == <<"\r", "\n">>

DocLines ==
    { <<"-", "-", "-">>,
      <<"-", "-", "-", "x">>,
      <<"t", "i", "t", "l", "e", ":", " ", "A">>,
      <<"T", "i", "t", "l", "e", " ", ":", " ", "\"", "A", "\"">>,
      <<"a", "u", "t", "h", "o", "r", ":", " ", "'", "'", "B", "'", "'">>,
      <<"a", "u", "t", "h", "o", "r", ":", "\"", "a", ":", "b">>,
      <<"x">>,
      <<>> }

IdleFrontmatter ==
    /\ content = <<>>
    /\ nLines = 0
    /\ eol = LF
    /\ fm = EmptyFrontmatter
    /\ remaining = <<>>
    /\ fmPc = "idle"

IdleLinks ==
    /\ linkChunks = <<>>
    /\ currentDir = <<>>
    /\ rewritten = <<>>
    /\ linkPc = "idle"

IdleScan ==
    /\ rootName = <<>>
    /\ tree = {}
    /\ entries = <<>>
    /\ scanErr = FALSE
    /\ scanPc = "idle"

\* &TreeNode{Name: "root", IsDir: true, Children: make([]*TreeNode, 0)}
EmptyRoot == [Name |-> <<"r", "o", "o", "t">>, Path |-> <<>>, IsDir |-> TRUE, Children |-> <<>>]

IdleTree ==
    /\ treeEntries = <<>>
    /\ built = EmptyRoot
    /\ rendered = <<>>
    /\ treePc = "idle"

\* no response written yet
NoResponse == [status |-> 0, file |-> <<>>, dir |-> <<>>]

IdleServe ==
    /\ disk = {}
    /\ listed = {}
    /\ reqPath = <<>>
    /\ readLower = "none"
    /\ readUpper = "none"
    /\ filePath = <<>>
    /\ convertErr = FALSE
    /\ response = NoResponse
    /\ listedGone = FALSE
    /\ nRequests = 0
    /\ servePc = "off"

InitFrontmatter ==
    /\ IdleLinks
    /\ IdleScan
    /\ IdleTree
    /\ IdleServe
    /\ content = <<>>
    /\ nLines = 0
    /\ eol \in {LF, CRLF}
    /\ fm = EmptyFrontmatter
    /\ remaining = <<>>
    /\ fmPc = "edit"

\* the author adds a line to the document
AppendLine(l) ==
    /\ fmPc = "edit"
    /\ nLines < MaxDocLines
    /\ content' = content \o l \o eol
    /\ nLines' = nLines + 1
    /\ UNCHANGED <<eol, fm, remaining, fmPc, linkVars, scanVars, treeVars, serveVars>>

\* the document is read and handed to ParseFrontmatter (server.go:129), with
\* its last line terminated or not
ParseDocument(terminated) ==
    /\ fmPc = "edit"
    /\ nLines > 0
    /\ LET text == IF terminated THEN content ELSE TrimSuffix(content, eol)
           r    == ParseFrontmatter(text)
       IN  /\ content' = text
           /\ fm' = r.fm
           /\ remaining' = r.content
    /\ fmPc' = "parsed"
    /\ UNCHANGED <<nLines, eol, linkVars, scanVars, treeVars, serveVars>>

NextFrontmatter ==
    \/ \E l \in DocLines : AppendLine(l)
    \/ \E terminated \in BOOLEAN : ParseDocument(terminated)

SpecFrontmatter == InitFrontmatter /\ [][NextFrontmatter]_vars

(***************************************************************************)
(* Go's path package: path.Clean and path.Join, as the library documents   *)
(* them (resolveLink calls both).                                          *)
(***************************************************************************)
RECURSIVE SelectNonEmpty(_)
SelectNonEmpty(ps) ==
    IF ps = <<>> THEN <<>>
    ELSE IF Head(ps) = <<>> THEN SelectNonEmpty(Tail(ps))
    ELSE <<Head(ps)>> \o SelectNonEmpty(Tail(ps))

RECURSIVE JoinWith(_, _)
JoinWith(ps, sep) ==
    IF ps = <<>> THEN <<>>
    ELSE IF Len(ps) = 1 THEN ps[1]
    ELSE ps[1] \o sep \o JoinWith(Tail(ps), sep)

\* the elements of a path that survive cleaning: "" and "." are dropped, ".."
\* removes the element before it, stays when there is none to remove in a
\* relative path, and is dropped at the start of a rooted path
RECURSIVE CleanElements(_, _, _)
CleanElements(done, todo, rooted) ==
    IF todo = <<>> THEN done
    ELSE LET e == Head(todo)
         IN  IF e = <<>> \/ e = <<".">> THEN CleanElements(done, Tail(todo), rooted)
             ELSE IF e = <<".", ".">>
             THEN IF done # <<>> /\ done[Len(done)] # <<".", ".">>
                  THEN CleanElements(SubSeq(done, 1, Len(done) - 1), Tail(todo), rooted)
                  ELSE IF rooted THEN CleanElements(done, Tail(todo), rooted)
                  ELSE CleanElements(Append(done, e), Tail(todo), rooted)
             ELSE CleanElements(Append(done, e), Tail(todo), rooted)

\* PathClean without the elimination of ".." elements
PathCleanKeepingDotDot(p) ==
    LET rooted == HasPrefix(p, <<"/">>)
        kept   == SelectNonEmpty([i \in 1..Len(Split(p, <<"/">>)) |->
                      IF Split(p, <<"/">>)[i] = <<".">> THEN <<>> ELSE Split(p, <<"/">>)[i]])
        out    == (IF rooted THEN <<"/">> ELSE <<>>) \o JoinWith(kept, <<"/">>)
    IN  IF out = <<>> THEN <<".">> ELSE out

\* path.Clean
PathClean(p) ==
    LET rooted == HasPrefix(p, <<"/">>)
        out    == (IF rooted THEN <<"/">> ELSE <<>>)
                      \o JoinWith(CleanElements(<<>>, Split(p, <<"/">>), rooted), <<"/">>)
    IN  IF out = <<>> THEN <<".">> ELSE out

\* path.Join of two elements: empty elements are ignored, the result is cleaned,
\* and the join of nothing is the empty string
PathJoin(a, b) ==
    IF SelectNonEmpty(<<a, b>>) = <<>> THEN <<>>
    ELSE PathClean(JoinWith(SelectNonEmpty(<<a, b>>), <<"/">>))

(***************************************************************************)
(* renderer.RewriteLinks                                                   *)
(***************************************************************************)
HrefOpen == <<"h", "r", "e", "f", "=", "\"">>
Quote == <<"\"">>

\* linkPattern, href="([^"]*\.(?:md|MD))", tried at the start of s: the link
\* path it captures, as <<linkPath>>, or <<>> when it does not match there.
\* [^"]* cannot pass a quote, so the value ends at the first quote after href="
linkPattern(s) ==
    IF ~HasPrefix(s, HrefOpen) THEN <<>>
    ELSE LET rest == Drop(s, Len(HrefOpen))
             q    == Index(rest, Quote)
         IN  IF q = -1 THEN <<>>
             ELSE IF HasSuffix(Slice(rest, 0, q), <<".", "m", "d">>)
                     \/ HasSuffix(Slice(rest, 0, q), <<".", "M", "D">>)
             THEN <<Slice(rest, 0, q)>>
             ELSE <<>>

\* IsExternal without the test for https://
IsExternalHttpOnly(linkPath) == HasPrefix(linkPath, <<"h", "t", "t", "p", ":", "/", "/">>)

\* the external links, which are skipped
IsExternal(linkPath) ==
    HasPrefix(linkPath, <<"h", "t", "t", "p", ":", "/", "/">>) \/ HasPrefix(linkPath, <<"h", "t", "t", "p", "s", ":", "/", "/">>)

\* resolveLink
resolveLink(linkPath, dir) ==
    IF HasPrefix(linkPath, <<"/">>) THEN Drop(linkPath, 1)
    ELSE IF dir = <<>> \/ dir = <<".">> THEN linkPath
    ELSE PathClean(PathJoin(dir, linkPath))

\* the route of a link path that is not external
Route(linkPath, dir) ==
    LET resolvedPath == TrimSuffix(TrimSuffix(resolveLink(linkPath, dir), <<".", "m", "d">>), <<".", "M", "D">>)
    IN  IF ~HasPrefix(resolvedPath, <<"/">>) THEN <<"/">> \o resolvedPath ELSE resolvedPath

\* the function ReplaceAllFunc calls with each match
ReplaceMatch(linkPath, dir) ==
    IF IsExternal(linkPath) THEN HrefOpen \o linkPath \o Quote
    ELSE HrefOpen \o Route(linkPath, dir) \o Quote

\* linkPattern.ReplaceAllFunc: the leftmost matches, none overlapping another,
\* each replaced; every other byte copied
RECURSIVE RewriteLinks(_, _)
RewriteLinks(htmlContent, dir) ==
    IF htmlContent = <<>> THEN <<>>
    ELSE LET m == linkPattern(htmlContent)
         IN  IF m = <<>>
             THEN <<Head(htmlContent)>> \o RewriteLinks(Tail(htmlContent), dir)
             ELSE ReplaceMatch(m[1], dir)
                      \o RewriteLinks(Drop(htmlContent, Len(HrefOpen) + Len(m[1]) + 1), dir)

(***************************************************************************)
(* Fragments: a hypertext fragment is a sequence of pieces, each an href   *)
(* attribute with one of the targets below or a piece of other markup.     *)
(***************************************************************************)
Href(target) == HrefOpen \o target \o Quote

Targets ==
    { <<"e", "x", "t", "e", "r", "n", "a", "l", ".", "m", "d">>,
      <<"h", "t", "t", "p", "s", ":", "/", "/", "e", "x", "a", "m", "p", "l", "e", ".", "c", "o", "m", "/", "p", "a", "g", "e", ".", "m", "d">>,
      <<"h", "t", "t", "p", ":", "/", "/", "e", "x", "a", "m", "p", "l", "e", ".", "c", "o", "m", "/", "p", "a", "g", "e", ".", "M", "D">>,
      <<".", ".", "/", "R", "E", "A", "D", "M", "E", ".", "m", "d">>,
      <<".", "/", "f", "i", "l", "e", ".", "m", "d">>,
      <<".", "/", "d", "o", "c", "s", "/", "f", "i", "l", "e", ".", "m", "d">>,
      <<"a", ".", "M", "d">>,
      <<"B", ".", "M", "D">>,
      <<"/", "a", "b", "s", ".", "m", "d">>,
      <<"f", "i", "l", "e", ".", "m", "d", "#", "s", "e", "c", "t", "i", "o", "n">>,
      <<"c", ".", "M", "D", ".", "m", "d">> }

Markup ==
    { <<"<", "a", " ", "c", "l", "a", "s", "s", "=", "\"", "d", "o", "c", ".", "m", "d", "\"", " ">>,
      <<"<", "a", " ", "d", "a", "t", "a", "-", "h", "r", "e", "f", "=", "\"", "d", "o", "c", ".", "m", "d", "\"", " ">>,
      <<">", "x", "<", "/", "a", ">">> }

Chunks == {Href(t) : t \in Targets} \cup Markup

\* the directories a document can be in; "" is the root of the corpus
Directories == { <<>>, <<".">>, <<"d", "o", "c", "s">>, <<"d", "o", "c", "s", "/", "s", "u", "b">> }

RECURSIVE Flatten(_)
Flatten(chunks) ==
    IF chunks = <<>> THEN <<>> ELSE Head(chunks) \o Flatten(Tail(chunks))

InitLinks ==
    /\ IdleFrontmatter
    /\ IdleScan
    /\ IdleTree
    /\ IdleServe
    /\ linkChunks = <<>>
    /\ currentDir \in Directories
    /\ rewritten = <<>>
    /\ linkPc = "render"

\* the converter emits the next piece of the fragment
EmitChunk(c) ==
    /\ linkPc = "render"
    /\ Len(linkChunks) < MaxChunks
    /\ linkChunks' = Append(linkChunks, c)
    /\ UNCHANGED <<currentDir, rewritten, linkPc, fmVars, scanVars, treeVars, serveVars>>

\* RenderWithLinks hands the fragment to RewriteLinks
Rewrite ==
    /\ linkPc = "render"
    /\ linkChunks # <<>>
    /\ rewritten' = RewriteLinks(Flatten(linkChunks), currentDir)
    /\ linkPc' = "done"
    /\ UNCHANGED <<linkChunks, currentDir, fmVars, scanVars, treeVars, serveVars>>

NextLinks ==
    \/ \E c \in Chunks : EmitChunk(c)
    \/ Rewrite

SpecLinks == InitLinks /\ [][NextLinks]_vars

(***************************************************************************)
(* scanner.ScanDirectory                                                   *)
(*                                                                         *)
(* The file system below the root is a set of nodes [path, kind]: path the *)
(* names from the root down, kind "file", "dir" or "locked" (a directory   *)
(* whose listing fails).  The root itself is a readable directory (main    *)
(* checks it is one), named rootName.                                      *)
(***************************************************************************)
\* the bytes of the model in ascending order, for Go's < on strings
Ascii == <<"\"", "&", ".", "/", "<", ">",
           "A","B","C","D","E","F","G","H","I","J","K","L","M",
           "N","O","P","Q","R","S","T","U","V","W","X","Y","Z",
           "a","b","c","d","e","f","g","h","i","j","k","l","m",
           "n","o","p","q","r","s","t","u","v","w","x","y","z">>

Code(c) == CHOOSE i \in 1..Len(Ascii) : Ascii[i] = c

\* s < t on Go strings
RECURSIVE Less(_, _)
Less(s, t) ==
    IF t = <<>> THEN FALSE
    ELSE IF s = <<>> THEN TRUE
    ELSE IF Head(s) # Head(t) THEN Code(Head(s)) < Code(Head(t))
    ELSE Less(Tail(s), Tail(t))

\* the strings of a set in ascending order
RECURSIVE Ascending(_)
Ascending(S) ==
    IF S = {} THEN <<>>
    ELSE LET m == CHOOSE x \in S : \A y \in S \ {x} : Less(x, y)
         IN  <<m>> \o Ascending(S \ {m})

\* filepath.Ext: the suffix of name from its last dot on, "" without a dot
Ext(name) ==
    LET dots == {i \in 1..Len(name) : name[i] = "."}
    IN  IF dots = {} THEN <<>>
        ELSE SubSeq(name, CHOOSE i \in dots : \A j \in dots : j <= i, Len(name))

\* os.FileInfo of the node at path: its name and whether it is a directory
KindAt(path) ==
    IF path = <<>> THEN "dir" ELSE (CHOOSE n \in tree : n.path = path).kind

NameAt(path) == IF path = <<>> THEN rootName ELSE path[Len(path)]

IsDirAt(path) == KindAt(path) \in {"dir", "locked"}

\* readDirNames: the names in the directory at path, sorted
DirNames(path) ==
    Ascending({n.path[Len(n.path)] : n \in
        {c \in tree : Len(c.path) = Len(path) + 1 /\ SubSeq(c.path, 1, Len(path)) = path}})

\* filepath.Rel(root, path)
RelPath(path) == IF path = <<>> THEN <<".">> ELSE JoinWith(path, <<"/">>)

\* walkFn without filepath.SkipDir: a hidden directory is passed over like a
\* hidden file, and its subtree is walked
walkFnWithoutPruning(path, readErr) ==
    IF readErr THEN [ret |-> "err", found |-> <<>>]
    ELSE IF HasPrefix(NameAt(path), <<".">>) THEN [ret |-> "nil", found |-> <<>>]
    ELSE IF IsDirAt(path) THEN [ret |-> "nil", found |-> <<>>]
    ELSE IF ~HasSuffix(ToLower(NameAt(path)), <<".", "m", "d">>) THEN [ret |-> "nil", found |-> <<>>]
    ELSE [ret   |-> "nil",
          found |-> <<[RelPath |-> RelPath(path),
                       Name    |-> TrimSuffix(NameAt(path), Ext(NameAt(path)))]>>]

\* the function ScanDirectory gives to filepath.Walk: what it returns ("nil",
\* "SkipDir" or "err") and the entry it appends, if any
walkFn(path, readErr) ==
    IF readErr THEN [ret |-> "err", found |-> <<>>]
    ELSE IF HasPrefix(NameAt(path), <<".">>)
    THEN IF IsDirAt(path) THEN [ret |-> "SkipDir", found |-> <<>>]
         ELSE [ret |-> "nil", found |-> <<>>]
    ELSE IF IsDirAt(path) THEN [ret |-> "nil", found |-> <<>>]
    ELSE IF ~HasSuffix(ToLower(NameAt(path)), <<".", "m", "d">>) THEN [ret |-> "nil", found |-> <<>>]
    ELSE [ret   |-> "nil",
          found |-> <<[RelPath |-> RelPath(path),
                       Name    |-> TrimSuffix(NameAt(path), Ext(NameAt(path)))]>>]

\* filepath.walk: a directory is listed first and the function is called for
\* the node with the error of the listing, if any (Go 1.16 and later); then the
\* names in it are walked in order; an error stops the walk, SkipDir from a
\* directory only skips it
RECURSIVE walk(_, _)
RECURSIVE walkNames(_, _, _)
walk(path, acc) ==
    LET r == walkFn(path, KindAt(path) = "locked")
    IN  IF ~IsDirAt(path) THEN [ret |-> r.ret, entries |-> acc \o r.found]
        ELSE IF KindAt(path) = "locked" \/ r.ret # "nil"
        THEN [ret |-> r.ret, entries |-> acc]
        ELSE walkNames(path, DirNames(path), acc)

walkNames(path, names, acc) ==
    IF names = <<>> THEN [ret |-> "nil", entries |-> acc]
    ELSE LET child == Append(path, Head(names))
             r     == walk(child, acc)
         IN  IF r.ret # "nil" /\ ~(IsDirAt(child) /\ r.ret = "SkipDir")
             THEN r
             ELSE walkNames(path, Tail(names), r.entries)

\* filepath.Walk(root, fn): SkipDir from the root ends the walk without error
Walk ==
    LET r == walk(<<>>, <<>>)
    IN  [err |-> r.ret = "err", entries |-> r.entries]

\* sort.Slice(entries, RelPath ascending)
SortByRelPath(es) ==
    LET paths == Ascending({es[i].RelPath : i \in 1..Len(es)})
    IN  [k \in 1..Len(paths) |->
            es[CHOOSE i \in 1..Len(es) : es[i].RelPath = paths[k]]]

ScanDirectory ==
    IF Walk.err THEN [entries |-> <<>>, err |-> TRUE]
    ELSE [entries |-> SortByRelPath(Walk.entries), err |-> FALSE]

(***************************************************************************)
(* Directory trees: files and directories are created below the root, then *)
(* the root is scanned.                                                    *)
(***************************************************************************)
RootNames == { <<"d", "o", "c", "s">>, <<".", "n", "o", "t", "e", "s">> }

FileNames == { <<"a", ".", "m", "d">>, <<"B", ".", "M", "D">>, <<".", "g", "i", "t">>, <<".", "h", ".", "m", "d">>, <<"d">>, <<"n", ".", "t", "x", "t">> }

Kinds == {"file", "dir", "locked"}

InitScan ==
    /\ IdleFrontmatter
    /\ IdleLinks
    /\ IdleTree
    /\ IdleServe
    /\ rootName \in RootNames
    /\ tree = {}
    /\ entries = <<>>
    /\ scanErr = FALSE
    /\ scanPc = "files"

\* a file or directory is created in the root or in a directory below it
CreateNode(parent, name, kind) ==
    /\ scanPc = "files"
    /\ Cardinality(tree) < MaxNodes
    /\ Len(parent) < MaxDepth
    /\ parent = <<>> \/ \E n \in tree : n.path = parent /\ n.kind # "file"
    /\ \A n \in tree : n.path # Append(parent, name)
    /\ tree' = tree \cup {[path |-> Append(parent, name), kind |-> kind]}
    /\ UNCHANGED <<rootName, entries, scanErr, scanPc, fmVars, linkVars, treeVars, serveVars>>

\* handleIndex calls ScanDirectory(s.baseDir)
Scan ==
    /\ scanPc = "files"
    /\ entries' = ScanDirectory.entries
    /\ scanErr' = ScanDirectory.err
    /\ scanPc' = "done"
    /\ UNCHANGED <<rootName, tree, fmVars, linkVars, treeVars, serveVars>>

NextScan ==
    \/ \E parent \in {<<>>} \cup {n.path : n \in tree}, name \in FileNames, kind \in Kinds :
           CreateNode(parent, name, kind)
    \/ Scan

SpecScan == InitScan /\ [][NextScan]_vars

(***************************************************************************)
(* scanner.BuildTree                                                       *)
(*                                                                         *)
(* A *TreeNode is a record [Name, Path, IsDir, Children], Children the     *)
(* sequence of child nodes.                                                *)
(***************************************************************************)
\* os.PathSeparator of the build (a Unix build)
PathSeparator == "/"

\* filepath.ToSlash: every separator replaced by a slash
ToSlash(p) == [i \in 1..Len(p) |-> IF p[i] = PathSeparator THEN "/" ELSE p[i]]

\* the URL path of a file node: RelPath without .md, then without .MD
UrlPath(relPath) ==
    <<"/">> \o ToSlash(TrimSuffix(TrimSuffix(relPath, <<".", "m", "d">>), <<".", "M", "D">>))

\* the index in children of the first node named name, 0 when there is none
FindChild(children, name) ==
    IF \E i \in 1..Len(children) : children[i].Name = name
    THEN Min({i \in 1..Len(children) : children[i].Name = name})
    ELSE 0

\* insertNode in which the search among the children finds nothing
RECURSIVE insertNodeAlwaysNew(_, _, _)
insertNodeAlwaysNew(parent, parts, entry) ==
    IF parts = <<>> THEN parent
    ELSE LET isFile == Len(parts) = 1
             child  == [Name     |-> parts[1],
                        Path     |-> IF isFile THEN UrlPath(entry.RelPath) ELSE <<>>,
                        IsDir    |-> ~isFile,
                        Children |-> <<>>]
         IN  [parent EXCEPT !.Children =
                 Append(parent.Children,
                        IF isFile THEN child
                        ELSE insertNodeAlwaysNew(child, Tail(parts), entry))]

\* insertNode: the parent with the entry added below it
RECURSIVE insertNode(_, _, _)
insertNode(parent, parts, entry) ==
    IF parts = <<>> THEN parent
    ELSE LET found  == FindChild(parent.Children, parts[1])
             isFile == Len(parts) = 1
             child  == [Name     |-> parts[1],
                        Path     |-> IF isFile THEN UrlPath(entry.RelPath) ELSE <<>>,
                        IsDir    |-> ~isFile,
                        Children |-> <<>>]
             kids   == IF found = 0 THEN Append(parent.Children, child)
                       ELSE parent.Children
             at     == IF found = 0 THEN Len(kids) ELSE found
         IN  IF Len(parts) > 1
             THEN [parent EXCEPT !.Children =
                      [kids EXCEPT ![at] = insertNode(kids[at], Tail(parts), entry)]]
             ELSE [parent EXCEPT !.Children = kids]

\* the loop of BuildTree over the entries
RECURSIVE InsertAll(_, _)
InsertAll(root, es) ==
    IF es = <<>> THEN root
    ELSE InsertAll(insertNode(root, Split(ToSlash(Head(es).RelPath), <<"/">>), Head(es)),
                   Tail(es))

\* the less function of sortTree without its test for directories
TreeLessByNameOnly(a, b) == Less(ToLower(a.Name), ToLower(b.Name))

\* the less function of sortTree: directories first, then by lower-cased name
TreeLess(a, b) ==
    IF a.IsDir # b.IsDir THEN a.IsDir
    ELSE Less(ToLower(a.Name), ToLower(b.Name))

\* sort.Slice, which is not stable: every arrangement of the children in
\* which no node is less than one before it
SortOutcomes(children) ==
    LET n     == Len(children)
        perms == {f \in [1..n -> 1..n] : \A i, j \in 1..n : i # j => f[i] # f[j]}
    IN  {[i \in 1..n |-> children[f[i]]] : f \in
            {g \in perms : \A i, j \in 1..n :
                i < j => ~TreeLess(children[g[j]], children[g[i]])}}

\* sortTree: the outcomes of sorting the children of a node and, recursively,
\* those of its directories
RECURSIVE SortTrees(_)
RECURSIVE SortedChildren(_)
SortedChildren(children) ==
    IF children = <<>> THEN {<<>>}
    ELSE {<<h>> \o t :
            h \in (IF Head(children).IsDir THEN SortTrees(Head(children))
                   ELSE {Head(children)}),
            t \in SortedChildren(Tail(children))}

SortTrees(node) ==
    UNION {{[node EXCEPT !.Children = cs] : cs \in SortOutcomes(kids)} :
              kids \in SortedChildren(node.Children)}

\* BuildTree: the trees it can return for the entries
BuildTree(es) == SortTrees(InsertAll(EmptyRoot, es))

(***************************************************************************)
(* scanner.RenderTree                                                      *)
(***************************************************************************)
\* strings.ReplaceAll(s, old, new), old one character
ReplaceAll(s, old, new) ==
    Flatten([i \in 1..Len(s) |-> IF s[i] = old THEN new ELSE <<s[i]>>])

\* escapeHTML
escapeHTML(s) ==
    ReplaceAll(ReplaceAll(ReplaceAll(ReplaceAll(s,
        "&", <<"&", "a", "m", "p", ";">>), "<", <<"&", "l", "t", ";">>), ">", <<"&", "g", "t", ";">>), "\"", <<"&", "q", "u", "o", "t", ";">>)

\* renderTreeNode at depth 1 and below
RECURSIVE renderTreeNode(_)
RECURSIVE renderChildren(_)
renderChildren(children) ==
    IF children = <<>> THEN <<>>
    ELSE renderTreeNode(Head(children)) \o renderChildren(Tail(children))

renderTreeNode(node) ==
    <<"<", "l", "i", ">">>
    \o (IF node.IsDir
        THEN <<"<", "s", "p", "a", "n", " ", "c", "l", "a", "s", "s", "=", "\"", "f", "o", "l", "d", "e", "r", "\"", ">">> \o escapeHTML(node.Name) \o <<"<", "/", "s", "p", "a", "n", ">", "\n">>
             \o (IF Len(node.Children) > 0
                 THEN <<"<", "u", "l", ">", "\n">> \o renderChildren(node.Children) \o <<"<", "/", "u", "l", ">", "\n">>
                 ELSE <<>>)
        ELSE <<"<", "a", " ", "h", "r", "e", "f", "=", "\"">> \o node.Path \o <<"\"", " ", "c", "l", "a", "s", "s", "=", "\"", "f", "i", "l", "e", "\"", ">">>
             \o escapeHTML(node.Name) \o <<"<", "/", "a", ">">>)
    \o <<"<", "/", "l", "i", ">", "\n">>

\* RenderTree: renderTreeNode at depth 0, where only the children are rendered
RenderTree(node) ==
    <<"<", "u", "l", " ", "c", "l", "a", "s", "s", "=", "\"", "f", "i", "l", "e", "-", "t", "r", "e", "e", "\"", ">", "\n">> \o renderChildren(node.Children) \o <<"<", "/", "u", "l", ">", "\n">>

(***************************************************************************)
(* Entry lists: the relative paths of markdown files that can lie together *)
(* below one root, in any order.                                           *)
(***************************************************************************)
EntryPaths ==
    { <<"a", ".", "m", "d">>,
      <<"b", "/", "c", ".", "m", "d">>,
      <<"b", "/", "a", ".", "m", "d">>,
      <<"A", ".", "m", "d">>,
      <<"B", "/", "z", ".", "m", "d">>,
      <<"c", ".", "M", "d">>,
      <<"n", ".", "M", "D", ".", "m", "d">>,
      <<"<", "d", ">", "/", "e", ".", "m", "d">>,
      <<"q", "\"", "&", ".", "m", "d">>,
      <<"b", "/", "s", "/", "t", ".", "m", "d">> }

\* filepath.Base of a relative path
BaseName(relPath) == Split(relPath, <<"/">>)[Len(Split(relPath, <<"/">>))]

\* the FileEntry ScanDirectory makes for a file
FileEntry(relPath) ==
    [RelPath |-> relPath,
     Name    |-> TrimSuffix(BaseName(relPath), Ext(BaseName(relPath)))]

InitTree ==
    /\ IdleFrontmatter
    /\ IdleLinks
    /\ IdleScan
    /\ IdleServe
    /\ treeEntries = <<>>
    /\ built = EmptyRoot
    /\ rendered = <<>>
    /\ treePc = "entries"

\* another file is found
AddEntry(relPath) ==
    /\ treePc = "entries"
    /\ Len(treeEntries) < MaxEntries
    /\ \A i \in 1..Len(treeEntries) : treeEntries[i].RelPath # relPath
    /\ treeEntries' = Append(treeEntries, FileEntry(relPath))
    /\ UNCHANGED <<built, rendered, treePc, fmVars, linkVars, scanVars, serveVars>>

\* handleIndex: scanner.BuildTree(entries), then scanner.RenderTree(tree)
BuildIndex ==
    /\ treePc = "entries"
    /\ \E t \in BuildTree(treeEntries) :
           /\ built' = t
           /\ rendered' = RenderTree(t)
    /\ treePc' = "done"
    /\ UNCHANGED <<treeEntries, fmVars, linkVars, scanVars, serveVars>>

NextTree ==
    \/ \E relPath \in EntryPaths : AddEntry(relPath)
    \/ BuildIndex

SpecTree == InitTree /\ [][NextTree]_vars

(***************************************************************************)
(* server.handleRequest, handleIndex and handleMarkdown                    *)
(*                                                                         *)
(* The files below baseDir are named by their relative paths; a response   *)
(* is its status, the file whose content it renders and the currentDir     *)
(* given to RenderWithLinks.                                               *)
(***************************************************************************)
\* the markdown files that can lie below baseDir
Files ==
    { <<"x", ".", "m", "d">>,
      <<"x", ".", "M", "D">>,
      <<"d", "o", "c", "s", "/", "y", ".", "m", "d">>,
      <<"z", ".", "M", "D">> }

\* the URL paths of document requests
RequestPaths == {UrlPath(f) : f \in Files} \cup { <<"/", "n", "o", "p", "e">> }

\* filepath.Dir
Dir(p) ==
    LET slashes == {i \in 1..Len(p) : p[i] = "/"}
    IN  IF slashes = {} THEN <<".">>
        ELSE PathClean(SubSeq(p, 1, CHOOSE i \in slashes : \A j \in slashes : j <= i))

\* filepath.Join(s.baseDir, urlPath + ext), relative to baseDir
CandidateFile(urlPath, ext) == PathClean(urlPath \o ext)

\* strings.TrimPrefix(r.URL.Path, "/")
RequestUrlPath == TrimPrefix(reqPath, <<"/">>)

InitServe ==
    /\ IdleFrontmatter
    /\ IdleLinks
    /\ IdleScan
    /\ IdleTree
    /\ disk \in SUBSET Files
    /\ listed = {}
    /\ reqPath = <<>>
    /\ readLower = "none"
    /\ readUpper = "none"
    /\ filePath = <<>>
    /\ convertErr = FALSE
    /\ response = NoResponse
    /\ listedGone = FALSE
    /\ nRequests = 0
    /\ servePc = "idle"

\* handleRequest with path "/": handleIndex lists the files on disk
IndexPage ==
    /\ servePc \in {"idle", "done"}
    /\ listed' = disk
    /\ UNCHANGED <<disk, reqPath, readLower, readUpper, filePath, convertErr,
                   response, listedGone, nRequests, servePc,
                   fmVars, linkVars, scanVars, treeVars>>

\* a file is removed from the disk, at any moment
DeleteFile(f) ==
    /\ servePc # "off"
    /\ f \in disk
    /\ disk' = disk \ {f}
    /\ UNCHANGED <<listed, reqPath, readLower, readUpper, filePath, convertErr,
                   response, listedGone, nRequests, servePc,
                   fmVars, linkVars, scanVars, treeVars>>

\* handleRequest with another path: handleMarkdown is entered
StartRequest(path) ==
    /\ servePc \in {"idle", "done"}
    /\ nRequests < MaxRequests
    /\ reqPath' = path
    /\ readLower' = "none"
    /\ readUpper' = "none"
    /\ filePath' = <<>>
    /\ convertErr' = FALSE
    /\ response' = NoResponse
    /\ listedGone' = \E f \in listed \ disk : UrlPath(f) = path
    /\ nRequests' = nRequests + 1
    /\ servePc' = "readLower"
    /\ UNCHANGED <<disk, listed, fmVars, linkVars, scanVars, treeVars>>

\* os.ReadFile of <path>.md
ReadLower ==
    /\ servePc = "readLower"
    /\ IF CandidateFile(RequestUrlPath, <<".", "m", "d">>) \in disk
       THEN /\ readLower' = "ok"
            /\ filePath' = CandidateFile(RequestUrlPath, <<".", "m", "d">>)
            /\ servePc' = "render"
       ELSE /\ readLower' = "failed"
            /\ filePath' = filePath
            /\ servePc' = "readUpper"
    /\ UNCHANGED <<disk, listed, reqPath, readUpper, convertErr, response,
                   listedGone, nRequests, fmVars, linkVars, scanVars, treeVars>>

\* os.ReadFile of <path>.MD, and the 404 when it fails too
ReadUpper ==
    /\ servePc = "readUpper"
    /\ IF CandidateFile(RequestUrlPath, <<".", "M", "D">>) \in disk
       THEN /\ readUpper' = "ok"
            /\ filePath' = CandidateFile(RequestUrlPath, <<".", "M", "D">>)
            /\ response' = response
            /\ servePc' = "render"
       ELSE /\ readUpper' = "failed"
            /\ filePath' = filePath
            /\ response' = [status |-> 404, file |-> <<>>, dir |-> <<>>]
            /\ servePc' = "done"
    /\ UNCHANGED <<disk, listed, reqPath, readLower, convertErr, listedGone,
                   nRequests, fmVars, linkVars, scanVars, treeVars>>

\* ParseFrontmatter, RenderWithLinks with currentDir, and the page or the 500;
\* whether the converter returns an error is not decided by this code
RenderDocument ==
    /\ servePc = "render"
    /\ \E err \in BOOLEAN :
           /\ convertErr' = err
           /\ response' =
                  IF err THEN [status |-> 500, file |-> <<>>, dir |-> <<>>]
                  ELSE [status |-> 200,
                        file   |-> filePath,
                        dir    |-> IF Dir(RequestUrlPath) = <<".">> THEN <<>>
                                   ELSE Dir(RequestUrlPath)]
    /\ servePc' = "done"
    /\ UNCHANGED <<disk, listed, reqPath, readLower, readUpper, filePath,
                   listedGone, nRequests, fmVars, linkVars, scanVars, treeVars>>

NextServe ==
    \/ IndexPage
    \/ \E f \in Files : DeleteFile(f)
    \/ \E path \in RequestPaths : StartRequest(path)
    \/ ReadLower
    \/ ReadUpper
    \/ RenderDocument

SpecServe == InitServe /\ [][NextServe]_vars

(***************************************************************************)
(* The line structure of a document, as the metadata block is described:   *)
(* lines end with LF or CRLF, the last one possibly with the end of input. *)
(***************************************************************************)
\* the pieces between the LFs of text; the last piece ends with the input
Pieces(text) == Split(text, LF)

\* piece k of text is a line that is exactly "---"
IsDelimiterLine(text, k) ==
    \/ Pieces(text)[k] = <<"-", "-", "-">>
    \/ Pieces(text)[k] = <<"-", "-", "-", "\r">> /\ k < Len(Pieces(text))

\* text begins, at offset 0, with the line "---" followed by LF or CRLF
BeginsWithDelimiterLine(text) ==
    Len(Pieces(text)) >= 2 /\ IsDelimiterLine(text, 1)

\* the later lines of text that are exactly "---"
ClosingLines(text) ==
    {k \in 2..Len(Pieces(text)) : IsDelimiterLine(text, k)}

RECURSIVE JoinPieces(_)
JoinPieces(ps) ==
    IF ps = <<>> THEN <<>>
    ELSE IF Len(ps) = 1 THEN ps[1]
    ELSE ps[1] \o LF \o JoinPieces(Tail(ps))

\* the bytes of text that follow line k and its terminator
AfterLine(text, k) == JoinPieces(SubSeq(Pieces(text), k + 1, Len(Pieces(text))))

\* a value with exactly one layer of surrounding quotes removed, if present
OneLayerUnquoted(v) ==
    IF Len(v) >= 2 /\ v[1] = v[Len(v)] /\ v[1] \in {"\"", "'"}
    THEN SubSeq(v, 2, Len(v) - 1) ELSE v

\* the field a line "key: V" declares: V trimmed, one layer of quotes removed
DeclaredBy(acc, rawLine) ==
    LET line  == TrimSpace(rawLine)
        parts == SplitN2(line, <<":">>)
    IN  IF line = <<>> \/ Len(parts) # 2 THEN acc
        ELSE LET key   == ToLower(TrimSpace(parts[1]))
                 value == OneLayerUnquoted(TrimSpace(parts[2]))
             IN  IF key = <<"t", "i", "t", "l", "e">> THEN [acc EXCEPT !.Title = value]
                 ELSE IF key = <<"a", "u", "t", "h", "o", "r">> THEN [acc EXCEPT !.Author = value]
                 ELSE acc

RECURSIVE Declared(_, _)
Declared(acc, lines) ==
    IF lines = <<>> THEN acc ELSE Declared(DeclaredBy(acc, Head(lines)), Tail(lines))

\* the lines between the opening line and closing line k
BlockLines(text, k) == SubSeq(Pieces(text), 2, k - 1)

\* a well-formed metadata block: an opening line, one or more lines none of
\* which starts with "---", and a closing line that is exactly "---"
WellFormedBlock(text) ==
    /\ BeginsWithDelimiterLine(text)
    /\ ClosingLines(text) # {}
    /\ Min(ClosingLines(text)) >= 3
    /\ \A k \in 2..(Min(ClosingLines(text)) - 1) : ~HasPrefix(Pieces(text)[k], <<"-", "-", "-">>)

(***************************************************************************)
(* Claims about ParseFrontmatter, under SpecFrontmatter.                   *)
(***************************************************************************)
\* C1: content that does not begin at offset 0 with the line "---" followed by
\* LF or CRLF comes back with empty metadata and byte-identical content.
C1_IdentityWithoutOpeningLine ==
    (fmPc = "parsed" /\ ~BeginsWithDelimiterLine(content))
        => (fm = EmptyFrontmatter /\ remaining = content)

\* C1 witness: a parsed document whose first line only starts with "---" and
\* that has a title line and a later line that is exactly "---".
C1_Witness ==
    /\ fmPc = "parsed"
    /\ HasPrefix(content, <<"-", "-", "-", "x">>)
    /\ Index(content, <<"t", "i", "t", "l", "e", ":", " ", "A">>) # -1
    /\ ClosingLines(content) # {}
    /\ remaining = content

\* C2: with an opening delimiter line and no later line that is exactly "---",
\* no metadata block is recognised: empty metadata, content unchanged.
C2_ClosingLineMustBeExact ==
    (fmPc = "parsed" /\ BeginsWithDelimiterLine(content) /\ ClosingLines(content) = {})
        => (fm = EmptyFrontmatter /\ remaining = content)

\* C3: with an opening delimiter line and a later line that is exactly "---"
\* (zero or more lines between them), the remaining content is exactly the
\* bytes after the first such closing line and its terminator.
C3_RemainingFollowsClosingLine ==
    (fmPc = "parsed" /\ BeginsWithDelimiterLine(content) /\ ClosingLines(content) # {})
        => remaining = AfterLine(content, Min(ClosingLines(content)))

\* C4: for a well-formed metadata block the extracted title and author are the
\* declared values, trimmed and with exactly one layer of quotes removed.
C4_DeclaredValuesRecovered ==
    (fmPc = "parsed" /\ WellFormedBlock(content))
        => fm = Declared(EmptyFrontmatter,
                         BlockLines(content, Min(ClosingLines(content))))

(***************************************************************************)
(* Claims about RewriteLinks, under SpecLinks.                             *)
(***************************************************************************)
IsHrefChunk(c) == \E t \in Targets : c = Href(t)

\* the quoted value of an href piece
TargetOf(c) == Slice(c, Len(HrefOpen), Len(c) - 1)

\* a target that begins with a network scheme
BeginsWithScheme(t) == HasPrefix(t, <<"h", "t", "t", "p", ":", "/", "/">>) \/ HasPrefix(t, <<"h", "t", "t", "p", "s", ":", "/", "/">>)

\* a relative target: neither rooted nor external
IsRelative(t) == ~HasPrefix(t, <<"/">>) /\ ~BeginsWithScheme(t)

\* the fragment is the single href piece c
OnlyChunk(c) == linkPc = "done" /\ linkChunks = <<c>>

\* C5: every href whose target begins with http:// or https:// is left
\* byte-for-byte unchanged, also when it ends in .md, while the other pieces of
\* the same fragment are rewritten as they are on their own, and an href with a
\* target ending in .md that is not external does change.
C5_ExternalLinksPreserved ==
    linkPc = "done" =>
        /\ rewritten = Flatten([i \in 1..Len(linkChunks) |->
               IF IsHrefChunk(linkChunks[i]) /\ BeginsWithScheme(TargetOf(linkChunks[i]))
               THEN linkChunks[i]
               ELSE RewriteLinks(linkChunks[i], currentDir)])
        /\ \A i \in 1..Len(linkChunks) :
               (/\ IsHrefChunk(linkChunks[i])
                /\ ~BeginsWithScheme(TargetOf(linkChunks[i]))
                /\ HasSuffix(TargetOf(linkChunks[i]), <<".", "m", "d">>))
                   => RewriteLinks(linkChunks[i], currentDir) # linkChunks[i]

\* C5 witness: a rewritten fragment with href="external.md" and
\* href="https://example.com/page.md", of which only the former changed.
C5_Witness ==
    /\ linkPc = "done"
    /\ linkChunks = <<Href(<<"e", "x", "t", "e", "r", "n", "a", "l", ".", "m", "d">>), <<">", "x", "<", "/", "a", ">">>, Href(<<"h", "t", "t", "p", "s", ":", "/", "/", "e", "x", "a", "m", "p", "l", "e", ".", "c", "o", "m", "/", "p", "a", "g", "e", ".", "m", "d">>)>>
    /\ rewritten = Href(<<"/", "e", "x", "t", "e", "r", "n", "a", "l">>) \o <<">", "x", "<", "/", "a", ">">> \o Href(<<"h", "t", "t", "p", "s", ":", "/", "/", "e", "x", "a", "m", "p", "l", "e", ".", "c", "o", "m", "/", "p", "a", "g", "e", ".", "m", "d">>)

\* C6 as stated: href="../README.md" with currentDir docs/sub becomes
\* href="/README".
C6_ParentOfSubdirectoryIsRoot ==
    (OnlyChunk(Href(<<".", ".", "/", "R", "E", "A", "D", "M", "E", ".", "m", "d">>)) /\ currentDir = <<"d", "o", "c", "s", "/", "s", "u", "b">>)
        => rewritten = Href(<<"/", "R", "E", "A", "D", "M", "E">>)

\* C6 as amended: href="../README.md" with currentDir docs/sub becomes
\* href="/docs/README", the parent of docs/sub being docs.
C6_ParentOfSubdirectory ==
    (OnlyChunk(Href(<<".", ".", "/", "R", "E", "A", "D", "M", "E", ".", "m", "d">>)) /\ currentDir = <<"d", "o", "c", "s", "/", "s", "u", "b">>)
        => rewritten = Href(<<"/", "d", "o", "c", "s", "/", "R", "E", "A", "D", "M", "E">>)

\* C6 witness: RewriteLinks has been applied to href="../README.md" with
\* currentDir docs/sub.
C6_Witness ==
    /\ OnlyChunk(Href(<<".", ".", "/", "R", "E", "A", "D", "M", "E", ".", "m", "d">>))
    /\ currentDir = <<"d", "o", "c", "s", "/", "s", "u", "b">>
    /\ rewritten # <<>>

\* C7: for every relative target ending in .md (here: in one extension, so that
\* "the extension" is not in question) and every currentDir, the empty one
\* included, the route is "/" followed by the cleaned join of currentDir and the
\* target, with the extension removed.
C7_RouteIsCleanedJoin ==
    \A t \in Targets :
        (/\ OnlyChunk(Href(t))
         /\ IsRelative(t)
         /\ HasSuffix(t, <<".", "m", "d">>)
         /\ ~HasSuffix(ToLower(TrimSuffix(t, <<".", "m", "d">>)), <<".", "m", "d">>))
            => rewritten = Href(<<"/">> \o TrimSuffix(PathJoin(currentDir, t), <<".", "m", "d">>))

\* C8: every href that is not external and whose target ends in the document
\* extension in any letter case is rewritten into a route that begins with "/"
\* and no longer carries the extension.
C8_ExtensionInAnyLetterCase ==
    \A t \in Targets :
        (OnlyChunk(Href(t)) /\ ~BeginsWithScheme(t) /\ HasSuffix(ToLower(t), <<".", "m", "d">>))
            => /\ rewritten # Href(t)
               /\ HasPrefix(TargetOf(rewritten), <<"/">>)
               /\ ~HasSuffix(ToLower(TargetOf(rewritten)), <<".", "m", "d">>)

\* an href piece that linkPattern matches and that is not external
IsRewrittenTarget(t) ==
    (HasSuffix(t, <<".", "m", "d">>) \/ HasSuffix(t, <<".", "M", "D">>)) /\ ~BeginsWithScheme(t)

\* C16: the route of every rewritten target is the resolved path with exactly
\* one trailing document extension removed, nothing before that final
\* extension being removed, and begins with "/".
C16_OneExtensionRemoved ==
    \A t \in Targets :
        (OnlyChunk(Href(t)) /\ IsRewrittenTarget(t))
            => LET resolved == resolveLink(t, currentDir)
                   stripped == SubSeq(resolved, 1, Len(resolved) - 3)
               IN  rewritten = Href(IF HasPrefix(stripped, <<"/">>) THEN stripped
                                    ELSE <<"/">> \o stripped)

\* C17: RewriteLinks changes only the quoted value of href attributes whose
\* target ends in the document extension: the pieces that are not href
\* attributes, other attributes included, and the hrefs whose target does not
\* end in the extension are copied in order, and each matched href is
\* rewritten as it is on its own.
C17_OnlyHrefValuesChange ==
    linkPc = "done" =>
        /\ rewritten = Flatten([i \in 1..Len(linkChunks) |->
               IF IsHrefChunk(linkChunks[i])
               THEN RewriteLinks(linkChunks[i], currentDir)
               ELSE linkChunks[i]])
        /\ \A i \in 1..Len(linkChunks) :
               (/\ IsHrefChunk(linkChunks[i])
                /\ ~HasSuffix(ToLower(TargetOf(linkChunks[i])), <<".", "m", "d">>))
                   => RewriteLinks(linkChunks[i], currentDir) = linkChunks[i]

(***************************************************************************)
(* Claims about ScanDirectory, under SpecScan.                             *)
(***************************************************************************)
\* the components of the relative path of an entry
Components(relPath) == Split(relPath, <<"/">>)

IsHidden(name) == HasPrefix(name, <<".">>)

\* the set of relative paths ScanDirectory returned
ReturnedPaths == {entries[i].RelPath : i \in 1..Len(entries)}

\* the regular files below the root whose name ends in .md in any letter case
\* and none of whose path components below the root begins with "."
EligibleFiles ==
    {n \in tree : /\ n.kind = "file"
                  /\ HasSuffix(ToLower(n.path[Len(n.path)]), <<".", "m", "d">>)
                  /\ \A k \in 1..Len(n.path) : ~IsHidden(n.path[k])}

\* C9: no returned entry has a relative path with a component that begins
\* with ".": hidden directories prune their subtree, hidden files are skipped.
C9_NoHiddenComponent ==
    scanPc = "done" =>
        \A i \in 1..Len(entries) :
            \A k \in 1..Len(Components(entries[i].RelPath)) :
                ~IsHidden(Components(entries[i].RelPath)[k])

\* C9 witness: a scan that returned an entry from a tree in which a markdown
\* file that is not hidden lies below a hidden directory.
C9_Witness ==
    /\ scanPc = "done"
    /\ ~scanErr
    /\ tree = {[path |-> <<<<".", "g", "i", "t">>>>, kind |-> "dir"],
               [path |-> <<<<".", "g", "i", "t">>, <<"a", ".", "m", "d">>>>, kind |-> "file"],
               [path |-> <<<<"B", ".", "M", "D">>>>, kind |-> "file"]}
    /\ entries = <<[RelPath |-> <<"B", ".", "M", "D">>, Name |-> <<"B">>]>>

\* C10: whatever the root's name, a successful scan returns exactly one entry
\* for every eligible file below the root, and no other entry.
C10_ExactlyTheEligibleFiles ==
    (scanPc = "done" /\ ~scanErr) =>
        /\ ReturnedPaths = {RelPath(n.path) : n \in EligibleFiles}
        /\ Len(entries) = Cardinality(EligibleFiles)

(***************************************************************************)
(* The tree returned by BuildTree                                          *)
(***************************************************************************)
\* the children of a node are ordered: no Document before a Directory, and
\* within Directories and within Documents no lower-cased name before a
\* smaller one
OrderedChildren(children) ==
    \A i, j \in 1..Len(children) :
        i < j =>
            /\ ~(~children[i].IsDir /\ children[j].IsDir)
            /\ children[i].IsDir = children[j].IsDir
                  => ~Less(ToLower(children[j].Name), ToLower(children[i].Name))

RECURSIVE OrderedAtEveryLevel(_)
OrderedAtEveryLevel(node) ==
    /\ OrderedChildren(node.Children)
    /\ \A i \in 1..Len(node.Children) : OrderedAtEveryLevel(node.Children[i])

\* C11: in the tree BuildTree returns, at every level all Directory children
\* precede all Document children, and within each of the two groups the
\* children are in ascending order of their lower-cased names.
C11_DirectoriesFirstThenByName ==
    treePc = "done" => OrderedAtEveryLevel(built)

\* C11 witness: a tree built from entries that arrive with a Document before a
\* Directory at the root and, inside the Directory, in descending name order.
C11_Witness ==
    /\ treePc = "done"
    /\ Len(treeEntries) = 3
    /\ treeEntries[1].RelPath = <<"a", ".", "m", "d">>
    /\ treeEntries[2].RelPath = <<"b", "/", "c", ".", "m", "d">>
    /\ treeEntries[3].RelPath = <<"b", "/", "a", ".", "m", "d">>
    /\ Len(built.Children) = 2
    /\ built.Children[1].IsDir
    /\ Len(built.Children[1].Children) = 2

RECURSIVE DocumentsBelow(_, _)
DocumentsBelow(node, above) ==
    UNION {IF node.Children[i].IsDir
           THEN DocumentsBelow(node.Children[i], Append(above, node.Children[i].Name))
           ELSE {[segments |-> Append(above, node.Children[i].Name),
                  route    |-> node.Children[i].Path]} :
           i \in 1..Len(node.Children)}

\* a name that ends in the document extension in some letter case
EndsInExtension(name) == HasSuffix(ToLower(name), <<".", "m", "d">>)

\* a path without its last three bytes, the document extension
WithoutExtension(p) == SubSeq(p, 1, Len(p) - 3)

\* C13: every Document node has a route that begins with /, equals the
\* entry's root-relative path with forward slashes and the document extension
\* stripped, and does not end in the document extension in any letter case.
\* Stated for the entries that carry one extension only.
C13_RouteIsPathWithoutExtension ==
    treePc = "done" =>
        \A d \in DocumentsBelow(built, <<>>) :
            LET rel == JoinWith(d.segments, <<"/">>)
            IN  (EndsInExtension(rel) /\ ~EndsInExtension(WithoutExtension(rel)))
                => /\ HasPrefix(d.route, <<"/">>)
                   /\ d.route = <<"/">> \o WithoutExtension(rel)
                   /\ ~EndsInExtension(d.route)

\* the number of positions of s that hold the byte ch
CountOf(s, ch) == Cardinality({i \in 1..Len(s) : s[i] = ch})

\* how many Directories, Documents and Directories with a sublist lie below
RECURSIVE Census(_)
Census(children) ==
    IF children = <<>> THEN [dirs |-> 0, files |-> 0, lists |-> 0]
    ELSE LET h     == Head(children)
             below == Census(h.Children)
             rest  == Census(Tail(children))
         IN  [dirs  |-> (IF h.IsDir THEN 1 ELSE 0) + below.dirs + rest.dirs,
              files |-> (IF h.IsDir THEN 0 ELSE 1) + below.files + rest.files,
              lists |-> (IF h.IsDir /\ Len(h.Children) > 0 THEN 1 ELSE 0)
                            + below.lists + rest.lists]

\* the quotes and the angle brackets of the markup itself: the outer list,
\* an item per node, a span per Directory, a sublist per Directory that has
\* children, an anchor with two attributes per Document
MarkupQuotes(node) ==
    2 + 2 * Census(node.Children).dirs + 4 * Census(node.Children).files

MarkupBrackets(node) ==
    2 + 4 * Census(node.Children).dirs + 4 * Census(node.Children).files
      + 2 * Census(node.Children).lists

\* the ampersand at position i begins one of the four escapes
BeginsEscape(s, i) ==
    \E e \in {<<"&", "a", "m", "p", ";">>, <<"&", "l", "t", ";">>, <<"&", "g", "t", ";">>, <<"&", "q", "u", "o", "t", ";">>} : HasPrefix(Drop(s, i - 1), e)

\* C14: the output of RenderTree holds no raw <, >, & or " that comes from a
\* name: the only quotes and angle brackets are those of the markup, in folder
\* labels, link text and link targets alike, and every ampersand begins an
\* escape.
C14_NamesAppearEscaped ==
    treePc = "done" =>
        /\ CountOf(rendered, "\"") = MarkupQuotes(built)
        /\ CountOf(rendered, "<") = MarkupBrackets(built)
        /\ CountOf(rendered, ">") = MarkupBrackets(built)
        /\ \A i \in 1..Len(rendered) : rendered[i] = "&" => BeginsEscape(rendered, i)

\* no two children of a node, at any level, have the same name
RECURSIVE UniqueSiblingNames(_)
UniqueSiblingNames(node) ==
    /\ \A i, j \in 1..Len(node.Children) :
           node.Children[i].Name = node.Children[j].Name => i = j
    /\ \A i \in 1..Len(node.Children) : UniqueSiblingNames(node.Children[i])

\* every Directory below the node has a Document below it, and no Document
\* has children
RECURSIVE NoEmptyDirectory(_)
NoEmptyDirectory(node) ==
    \A i \in 1..Len(node.Children) :
        LET c == node.Children[i]
        IN  IF c.IsDir
            THEN Census(c.Children).files >= 1 /\ NoEmptyDirectory(c)
            ELSE c.Children = <<>>

\* C15: the tree mirrors the paths of the entries: the Documents are in
\* one-to-one correspondence with the entries, each reached from the root
\* through Directories named by the leading segments of its path; sibling
\* names are unique at every level; every Directory other than the root has a
\* Document below it.
C15_TreeMirrorsPaths ==
    treePc = "done" =>
        /\ {d.segments : d \in DocumentsBelow(built, <<>>)}
               = {Split(treeEntries[i].RelPath, <<"/">>) : i \in 1..Len(treeEntries)}
        /\ Census(built.Children).files = Len(treeEntries)
        /\ UniqueSiblingNames(built)
        /\ NoEmptyDirectory(built)

\* C15 witness: a tree of three levels in which two entries share their first
\* segment.
C15_Witness ==
    /\ treePc = "done"
    /\ Len(treeEntries) = 3
    /\ \E i \in 1..Len(built.Children) :
           /\ built.Children[i].IsDir
           /\ Len(built.Children[i].Children) = 2
           /\ built.Children[i].Children[1].IsDir
           /\ ~built.Children[i].Children[2].IsDir

\* the orderings of a list of entries
Orderings(es) ==
    LET n == Len(es)
    IN  {[i \in 1..n |-> es[f[i]]] :
            f \in {g \in [1..n -> 1..n] : \A i, j \in 1..n : i # j => g[i] # g[j]}}

\* C18: the result of BuildTree is determined by the set of entries alone:
\* whatever the order of the entries, sibling names that differ only in letter
\* case included, BuildTree returns the same tree with the same child order
\* at every level.
C18_TreeDeterminedByEntrySet ==
    treePc = "done" =>
        \A es \in Orderings(treeEntries) : BuildTree(es) = {built}

(***************************************************************************)
(* Claims about handleMarkdown, under SpecServe.                           *)
(***************************************************************************)
\* C19: handleMarkdown answers not-found only after the reads of <path>.md
\* and then <path>.MD have both failed, and answers with the rendered
\* document when either read succeeds (and the conversion does); when a file
\* the index listed was deleted before it is requested, the request ends in
\* not-found, and the requests after it are answered by the same rule.
C19_DeletedDocumentIsNotFound ==
    servePc = "done" =>
        /\ response.status = 404 => (readLower = "failed" /\ readUpper = "failed")
        /\ ((readLower = "ok" \/ readUpper = "ok") /\ ~convertErr)
               => (response.status = 200 /\ response.file = filePath)
        /\ listedGone => response.status = 404

====
